---- MODULE Spec2Model ----
(***************************************************************************)
(* A state-machine model of src/captcha_generator.py: the CAPTCHAGenerator *)
(* object (its configuration mapping and instance attributes), one call of *)
(* generate_captcha followed stage by stage (config merge and canvas, the  *)
(* per-character loop, the mode degradations, noise and blur), the batch   *)
(* loop of generate_dataset around it, export_to_original_format, two      *)
(* generate_captcha calls running in two threads on one generator, and the *)
(* command-line run of the __main__ block.                                 *)
(*                                                                         *)
(* Representation.                                                         *)
(*  - A Python dict is a function whose DOMAIN is its key set; <<>> is the  *)
(*    empty dict and also stands for the argument None where the code      *)
(*    treats both alike (`if config:`).                                    *)
(*  - A character is its code point (ord), a string a sequence of them.    *)
(*  - noise_level is counted in 1/1024 (64 is 0.0625), overlap_amount in   *)
(*    quarters (2 is 0.5), angles in tenths of a degree (150 is 15.0).     *)
(*  - A normalised bounding-box field is the pair <<numerator, denominator>> *)
(*    of the division that produced it, in pixels.                         *)
(*  - An image is its size, the sequence of drawing operations that        *)
(*    produced its pixels, and the boxes the glyph tiles were pasted at.   *)
(***************************************************************************)
EXTENDS Integers, Sequences, FiniteSets, TLC

VARIABLES
    constructed,            \* __init__ returned (FALSE: it raised ValueError)
    config,                 \* self.config
    config0,                \* the value self.config had when __init__ ended
    width, height,          \* self.width, self.height
    charset,                \* self.charset
    non_ascii_distractors,  \* self.non_ascii_distractors (the symbol pool)
    font_paths,             \* self.font_paths
    background_colors,      \* self.background_colors
    background_colors_arg,  \* __init__'s parameter `background_colors`
    pc,                     \* position inside generate_captcha
    config_arg,             \* generate_captcha's parameter `config`
    captcha_config,         \* generate_captcha's local `captcha_config`
    text,                   \* generate_captcha's `text`
    bboxes,                 \* generate_captcha's local `bboxes`
    img,                    \* generate_captcha's local `img`
    outcome,                \* "none" | "returned" | "raised" (last call)
    error,                  \* the exception type of a raised call
    ds,                     \* generate_dataset's frame
    labels,                 \* labels_data of the last export_to_original_format
    calls,                  \* the frames of two generate_captcha calls in two threads
    cli,                    \* the __main__ block: its position and the file system
    font_history            \* self._last_used_fonts and self._synthetic_variations

vars == <<constructed, config, config0, width, height, charset,
          non_ascii_distractors, font_paths, background_colors,
          pc, config_arg, captcha_config, text, bboxes, img, outcome, error,
          ds, labels, background_colors_arg, calls, cli, font_history>>

\* What generate_captcha, generate_dataset and export_to_original_format never
\* assign: the instance attributes set by __init__, and the state of the callers
\* that are not running
attr_vars == <<constructed, config0, width, height, charset,
               non_ascii_distractors, font_paths, background_colors,
               background_colors_arg, calls>>

\* With them the font history, which only _draw_character writes (lines 374-421)
init_vars == <<attr_vars, font_history>>

self_vars == <<init_vars, cli>>

-----------------------------------------------------------------------------
(* Bounds of the model *)

MaxLen == 2          \* longest text generated or passed in
MaxSamples == 1      \* largest num_samples of generate_dataset
MaxDefaultLen == 7   \* longest text generated when the length range is the default

-----------------------------------------------------------------------------
(* Python helpers *)

\* dict.get(key, default)
Get(d, k, default) == IF k \in DOMAIN d THEN d[k] ELSE default

\* d.update(e), as the value d holds afterwards: later source wins key by key
DictUpdateAdditive(d, e) ==
    [k \in DOMAIN d \cup DOMAIN e |->
        IF k \in DOMAIN e /\ k \in DOMAIN d /\ k \in {"noise_level", "blur_level"}
        THEN d[k] + e[k]
        ELSE IF k \in DOMAIN e THEN e[k] ELSE d[k]]
DictUpdate(d, e) ==
    [k \in DOMAIN d \cup DOMAIN e |-> IF k \in DOMAIN e THEN e[k] ELSE d[k]]

\* math.cos and math.sin of an angle in tenths of a degree, in 1/TrigUnit
TrigUnit == 10000

Abs(n) == IF n < 0 THEN -n ELSE n

Cos(angle) ==
    CASE Abs(angle) = 0 -> 10000
      [] Abs(angle) = 5 -> 10000
      [] Abs(angle) = 6 -> 9999
      [] Abs(angle) = 150 -> 9659
      [] Abs(angle) = 180 -> 9511
      [] Abs(angle) = 200 -> 9397
      [] Abs(angle) = 300 -> 8660
      [] Abs(angle) = 360 -> 8090

Sin(angle) ==
    (IF angle < 0 THEN -1 ELSE 1) *
    CASE Abs(angle) = 0 -> 0
      [] Abs(angle) = 5 -> 87
      [] Abs(angle) = 6 -> 105
      [] Abs(angle) = 150 -> 2588
      [] Abs(angle) = 180 -> 3090
      [] Abs(angle) = 200 -> 3420
      [] Abs(angle) = 300 -> 5000
      [] Abs(angle) = 360 -> 5878

\* n copies of one drawing operation
Repeat(op, n) == [j \in 1..n |-> op]

Max(a, b) == IF a >= b THEN a ELSE b
Min(a, b) == IF a <= b THEN a ELSE b

\* math.floor and math.ceil of num / den, den > 0
Floor(num, den) == num \div den
Ceil(num, den) == -((-num) \div den)

\* int(num / den): truncation toward zero
IntTrunc(num, den) ==
    IF num >= 0 THEN num \div den ELSE -((-num) \div den)

Modes == {"normal", "part3", "part4"}

-----------------------------------------------------------------------------
(* The inputs: configuration documents, constructor arguments, call arguments *)

\* captcha_config of the YAML document: the base degradation settings
BaseConfig ==
    [mode |-> "normal", font_size_range |-> <<40, 60>>,
     noise_level |-> 0, blur_level |-> 0,
     rotation_range |-> <<-150, 150>>, large_rotation_range |-> <<-300, 300>>,
     shear_range |-> <<-2, 2>>,
     character_overlap |-> FALSE, overlap_amount |-> 2,
     line_distractors |-> 0, circular_distractors |-> 0,
     non_ascii_distractors |-> 0, complex_background |-> FALSE]

\* mode_configs of the YAML document: the per-mode override mappings
ModeConfigs ==
    [normal |-> [mode |-> "normal", rotation_range |-> <<-5, 5>>],
     part3 |-> [mode |-> "part3", line_distractors |-> 2, noise_level |-> 64,
                character_overlap |-> TRUE, perspective_distortion |-> TRUE,
                character_outline |-> TRUE],
     part4 |-> [mode |-> "part4", circular_distractors |-> 1,
                non_ascii_distractors |-> 1, complex_background |-> TRUE,
                blur_level |-> 1, scale_distortion |-> TRUE]]

\* A full document: default canvas, charset "7b-", one font, all three modes
YamlFull ==
    [width |-> 640, height |-> 160, charset |-> <<55, 98, 45>>,
     non_ascii_distractors |-> <<945, 167>>,
     font_paths |-> <<"DejaVuSans.ttf">>,
     background_colors |-> <<"white", "beige">>,
     captcha_length_range |-> <<1, 1>>,
     captcha_config |-> BaseConfig, mode_configs |-> ModeConfigs]

\* The full document with two fonts
YamlTwoFonts ==
    DictUpdate(YamlFull, [font_paths |-> <<"DejaVuSans.ttf", "DejaVuSans-Bold.ttf">>])

\* A document for a small canvas: charset "\'e" (e acute), no mode_configs, no
\* fonts, and circles among the base settings
YamlSmall ==
    [width |-> 24, height |-> 16, charset |-> <<233>>,
     background_colors |-> <<"white">>,
     captcha_length_range |-> <<0, 2>>,
     captcha_config |-> DictUpdate(BaseConfig, [circular_distractors |-> 1])]

\* The small canvas with the per-mode mappings of the full document
YamlSmallModes == DictUpdate(YamlSmall, [mode_configs |-> ModeConfigs])

\* A document without captcha_length_range: default canvas, charset "A", no fonts
YamlNoRange ==
    [charset |-> <<65>>, background_colors |-> <<"white">>,
     captcha_config |-> BaseConfig]

\* A document without a palette
YamlNoPalette ==
    [charset |-> <<65>>, captcha_config |-> BaseConfig]

\* What load_config can return; <<>> is also the value when no path is given
YamlDocs == {YamlFull, YamlSmall, YamlNoPalette}

\* The calls of __init__: the document behind config_path (<<>>: no path) and the
\* arguments width, height, font_paths and background_colors (<<>>: None)
ConstructorCalls ==
    { [yaml |-> YamlFull, width |-> 320, height |-> 80,
       font_paths |-> <<"Arial.ttf">>, background_colors |-> <<>>],
      [yaml |-> YamlSmall, width |-> 640, height |-> 160,
       font_paths |-> <<>>, background_colors |-> <<>>],
      [yaml |-> YamlNoPalette, width |-> 640, height |-> 160,
       font_paths |-> <<>>, background_colors |-> <<>>],
      [yaml |-> YamlNoPalette, width |-> 320, height |-> 80,
       font_paths |-> <<"Arial.ttf">>, background_colors |-> <<"gray">>],
      [yaml |-> <<>>, width |-> 640, height |-> 160,
       font_paths |-> <<>>, background_colors |-> <<"gray">>],
      [yaml |-> <<>>, width |-> 640, height |-> 160,
       font_paths |-> <<>>, background_colors |-> <<>>] }

\* The `config` arguments of generate_captcha (<<>>: None or {})
ConfigArgs ==
    { <<>>,
      [mode |-> "normal"],
      [mode |-> "part3"],
      [mode |-> "part4"],
      [mode |-> "part3", noise_level |-> 1, line_distractors |-> 0],
      [blur_level |-> 1],
      [shear_range |-> <<>>] }

\* The `text` arguments of generate_captcha that are not None
TextArgs == { SubSeq(<<65, 66, 49, 50>>, 1, k) : k \in 0..MaxLen }

\* All strings over a charset of exactly the length k: random.choices(charset, k=k)
Choices(cs, k) == [1..k -> {cs[j] : j \in DOMAIN cs}]

\* Outcomes of the random draws and library calls of one _draw_character call:
\* the jitter (random.randint(-10, 10) twice), the ink extent draw.textbbox
\* reports, whether ImageFont.truetype loaded the chosen font, which end of
\* the rotation range random.uniform returned, the scale factors
\* random.uniform(0.8, 1.2) returned, in tenths, the font size (line 387), the
\* index random.choice drew for the font path (line 395) and the variation of
\* the default font (lines 414-415)
GlyphDraws ==
    { [x_offset |-> -10, y_offset |-> -10, char_width |-> 12, char_height |-> 20,
       loaded |-> TRUE, low |-> TRUE, scale_x |-> 8, scale_y |-> 12,
       font_size |-> 40, font_choice |-> 1, variation_type |-> "normal",
       variation_id |-> 7],
      [x_offset |-> 10, y_offset |-> 10, char_width |-> 40, char_height |-> 30,
       loaded |-> TRUE, low |-> FALSE, scale_x |-> 12, scale_y |-> 12,
       font_size |-> 40, font_choice |-> 1, variation_type |-> "normal",
       variation_id |-> 7],
      [x_offset |-> 0, y_offset |-> 0, char_width |-> 12, char_height |-> 20,
       loaded |-> FALSE, low |-> FALSE, scale_x |-> 10, scale_y |-> 8,
       font_size |-> 40, font_choice |-> 1, variation_type |-> "normal",
       variation_id |-> 7] }

-----------------------------------------------------------------------------
(* CAPTCHAGenerator.__init__ *)

\* generate_dataset's frame when no call of it has been made
NoFrame ==
    [active |-> FALSE, result |-> "none", mode |-> "", config |-> <<>>,
     num_samples |-> 0, save_annotations |-> FALSE, metadata |-> <<>>]

\* export_to_original_format's labels_data when no call of it has been made
NoLabels == [result |-> "none", split |-> "", data |-> <<>>]

\* The local `img` of generate_captcha outside a call
NoImage == [size |-> <<0, 0>>, ops |-> <<>>, pastes |-> <<>>]

\* The locals of generate_captcha and the last outcome, before any call
IdleCall ==
    /\ pc = "idle"
    /\ config_arg = <<>>
    /\ captcha_config = <<>>
    /\ text = <<>>
    /\ bboxes = <<>>
    /\ img = NoImage
    /\ outcome = "none"
    /\ error = "none"

\* _get_default_fonts: the fonts of the fixed list that exist on the system
DefaultFontSets == { <<>> }

\* Before the first _draw_character the instance has neither history attribute:
\* `initialized` is hasattr(self, '_last_used_fonts'), the test of line 375, and
\* `has_variations` is hasattr(self, '_synthetic_variations')
NoHistory ==
    [initialized |-> FALSE, has_variations |-> FALSE,
     last_used_fonts |-> <<>>, synthetic_variations |-> <<>>]

\* Lines 375-377 run without interruption
CreateHistory(history) ==
    IF history.initialized THEN history
    ELSE [initialized |-> TRUE, has_variations |-> TRUE,
          last_used_fonts |-> <<>>, synthetic_variations |-> <<>>]

\* No thread is inside generate_captcha
NoCalls == <<>>

\* The __main__ block is not running
NoCli == [pc |-> "none"]

\* Lines 83-97: the palette comes from the config alone, and without one __init__
\* raises ValueError whatever the argument background_colors is
InitRaisesWithoutArgument(yaml, background_colors_argument) ==
    /\ Get(yaml, "background_colors", <<>>) = <<>>
    /\ background_colors_argument = <<>>
InitRaises(yaml, background_colors_argument) ==
    Get(yaml, "background_colors", <<>>) = <<>>

\* Line 62: the charset when the document has none, "0123456789A...Z"
DefaultCharset ==
    <<48, 49, 50, 51, 52, 53, 54, 55, 56, 57,
      65, 66, 67, 68, 69, 70, 71, 72, 73, 74, 75, 76, 77, 78, 79, 80, 81, 82, 83,
      84, 85, 86, 87, 88, 89, 90>>

\* Lines 66-67: the symbol pool when the document has none: the Greek lower-case
\* letters without the final sigma, then 14 signs
DefaultDistractors ==
    <<945, 946, 947, 948, 949, 950, 951, 952, 953, 954, 955, 956, 957, 958, 959,
      960, 961, 963, 964, 965, 966, 967, 968, 969,
      8470, 167, 182, 8224, 8225, 8226, 8230, 8240, 8242, 8243, 8249, 8250, 8364,
      8482>>

\* The attributes __init__ assigns for one call of it
Construct(yaml, width_arg, height_arg, font_paths_arg, background_colors_argument, default_fonts) ==
    /\ config = yaml
    /\ config0 = yaml
    /\ width = Get(yaml, "width", width_arg)
    /\ height = Get(yaml, "height", height_arg)
    /\ charset = Get(yaml, "charset", DefaultCharset)
    /\ non_ascii_distractors = Get(yaml, "non_ascii_distractors", DefaultDistractors)
    /\ font_paths = IF Get(yaml, "font_paths", <<>>) # <<>> THEN yaml.font_paths
                    ELSE IF font_paths_arg # <<>> THEN font_paths_arg
                    ELSE default_fonts
    /\ background_colors = Get(yaml, "background_colors", <<>>)
    /\ background_colors_arg = background_colors_argument
    /\ constructed = ~InitRaises(yaml, background_colors_argument)
    /\ font_history = NoHistory

\* CAPTCHAGenerator(config_path): the other parameters at their defaults (lines
\* 38-41)
ConstructFrom(yaml, default_fonts) ==
    Construct(yaml, 640, 160, <<>>, <<>>, default_fonts)

Init ==
    /\ \E call \in ConstructorCalls, default_fonts \in DefaultFontSets :
          Construct(call.yaml, call.width, call.height, call.font_paths,
                    call.background_colors, default_fonts)
    /\ IdleCall
    /\ ds = NoFrame
    /\ labels = NoLabels
    /\ calls = NoCalls
    /\ cli = NoCli

-----------------------------------------------------------------------------
(* generate_captcha: the config merge (lines 153-167) *)

\* `mode = config.get('mode') if config else None`; "" stands for None
RequestedMode(arg) ==
    IF arg # <<>> /\ "mode" \in DOMAIN arg THEN arg.mode ELSE ""

\* `if mode and mode in self.config.get('mode_configs', {})`
HasModeConfig(cfg, arg) ==
    /\ RequestedMode(arg) # ""
    /\ RequestedMode(arg) \in DOMAIN Get(cfg, "mode_configs", <<>>)

\* The local captcha_config after line 167
MergeConfigExplicitFirst(cfg, arg) ==
    LET base == Get(cfg, "captcha_config", <<>>)
        merged == IF arg # <<>> THEN DictUpdate(base, arg) ELSE base
    IN  IF HasModeConfig(cfg, arg)
        THEN DictUpdate(merged, cfg.mode_configs[RequestedMode(arg)])
        ELSE merged
MergeConfig(cfg, arg) ==
    LET base == Get(cfg, "captcha_config", <<>>)
        merged == IF HasModeConfig(cfg, arg)
                  THEN DictUpdate(base, cfg.mode_configs[RequestedMode(arg)])
                  ELSE base
    IN  IF arg # <<>> THEN DictUpdate(merged, arg) ELSE merged

\* self.config after line 167: without a mode mapping the local captcha_config
\* IS self.config['captcha_config'], and update() writes through to it
ConfigAfterMerge(cfg, arg) ==
    IF /\ ~HasModeConfig(cfg, arg)
       /\ arg # <<>>
       /\ "captcha_config" \in DOMAIN cfg
    THEN [cfg EXCEPT !.captcha_config = DictUpdate(@, arg)]
    ELSE cfg

-----------------------------------------------------------------------------
(* generate_captcha: text and base image (lines 169-188) *)

BackgroundStyles == {"gradient", "noise_pattern", "geometric", "textured"}

\* `captcha_config.get('complex_background') and captcha_config.get('mode') in
\* ['part3', 'part4']`
WantsComplexBackground(cc) ==
    /\ Get(cc, "complex_background", FALSE)
    /\ Get(cc, "mode", "") \in {"part3", "part4"}

\* Image.new('RGB', (w, h), ...) with the first drawing operation on it
NewImage(w, h, op) == [size |-> <<w, h>>, ops |-> <<op>>, pastes |-> <<>>]

\* Lines 218-366: the two canvases of _create_complex_background. `drawn` is the
\* canvas of line 218, which the ImageDraw of line 219 writes to; `returned` is
\* what `img` names at line 366. A canvas lists the style it was created for
\* and then what was drawn or composited on it. The gradient writes its points
\* through `draw` onto the first canvas and returns it; noise_pattern binds
\* `img` to a new canvas (line 276) and writes its points through the old
\* `draw` (line 284); geometric makes a new ImageDraw for its new canvas (line
\* 290) and composites overlays; textured composites overlays on a new canvas.
BackgroundCanvases(style) ==
    LET first == NewImage(width, height, "black")
        fresh == NewImage(width, height, style)
        points == Repeat("point", IF (width * height) \div 10 > 0 THEN 1 ELSE 0)
    IN  CASE style = "gradient" ->
               [returned |-> [fresh EXCEPT !.ops = @ \o <<"point">>],
                discarded |-> NoImage]
          [] style = "noise_pattern" ->
               [returned |-> fresh,
                discarded |-> [first EXCEPT !.ops = @ \o points]]
          [] style = "geometric" ->
               [returned |-> [fresh EXCEPT !.ops = @ \o <<"overlay">>],
                discarded |-> first]
          [] style = "textured" ->
               [returned |-> [fresh EXCEPT !.ops = @ \o <<"overlay">>],
                discarded |-> first]

\* _create_complex_background: every style returns a canvas of the generator's size
CreateComplexBackground(style) == BackgroundCanvases(style).returned

Raise(e) ==
    /\ pc' = "idle"
    /\ outcome' = "raised"
    /\ error' = e
    /\ bboxes' = <<>>
    /\ img' = NoImage

\* The call up to the character loop, for given arguments; has_text says whether
\* `text` was passed, has_length whether `captcha_length` was; texts longer than
\* max_len are left out
EnterCaptchaUpTo(max_len, has_text, text_arg, has_length, length_arg, arg) ==
    LET cc == MergeConfig(config, arg)
        length_range == Get(config, "captcha_length_range", <<3, 7>>)
    IN  /\ config_arg' = arg
        /\ captcha_config' = cc
        /\ config' = ConfigAfterMerge(config, arg)
        /\ \/ /\ ~has_text /\ ~has_length
              /\ length_range[1] > length_range[2]
              /\ text' = <<>>
              /\ Raise("ValueError")
           \/ \E k \in 0..max_len :
                /\ ~has_text
                /\ IF has_length THEN k = length_arg
                   ELSE k \in length_range[1]..length_range[2]
                /\ k > 0 /\ charset = <<>>
                /\ text' = <<>>
                /\ Raise("IndexError")
           \/ \E k \in 0..max_len :
                /\ IF has_text THEN k = Len(text_arg)
                   ELSE IF has_length THEN k = length_arg
                   ELSE k \in length_range[1]..length_range[2]
                /\ has_text \/ k = 0 \/ charset # <<>>
                /\ IF has_text THEN text' = text_arg
                   ELSE text' \in Choices(charset, k)
                /\ IF WantsComplexBackground(cc)
                   THEN /\ \E style \in BackgroundStyles :
                               img' = CreateComplexBackground(style)
                        /\ bboxes' = <<>>
                        /\ pc' = "chars"
                        /\ outcome' = "none"
                        /\ error' = "none"
                   ELSE IF background_colors = <<>>
                   THEN Raise("IndexError")   \* random.choice of an empty palette
                   ELSE /\ img' = NewImage(width, height, "fill")
                        /\ bboxes' = <<>>
                        /\ pc' = "chars"
                        /\ outcome' = "none"
                        /\ error' = "none"

EnterCaptcha(has_text, text_arg, has_length, length_arg, arg) ==
    EnterCaptchaUpTo(MaxLen, has_text, text_arg, has_length, length_arg, arg)

\* A caller other than generate_dataset calls generate_captcha
GenerateCaptcha ==
    /\ constructed
    /\ pc = "idle"
    /\ ~ds.active
    /\ \E arg \in ConfigArgs :
          \/ \E t \in TextArgs : EnterCaptcha(TRUE, t, FALSE, 0, arg)
          \/ EnterCaptcha(FALSE, <<>>, FALSE, 0, arg)
    /\ ds' = NoFrame
    /\ labels' = NoLabels
    /\ UNCHANGED self_vars

\* generate_captcha() with no argument at all
GenerateCaptchaNoArguments ==
    /\ constructed
    /\ pc = "idle"
    /\ ~ds.active
    /\ EnterCaptchaUpTo(MaxDefaultLen, FALSE, <<>>, FALSE, 0, <<>>)
    /\ ds' = NoFrame
    /\ labels' = NoLabels
    /\ UNCHANGED self_vars

-----------------------------------------------------------------------------
(* _draw_character (lines 369-591), one iteration of the loop of lines 191-195 *)

\* Python truth of a range read with config.get: None and the empty list are false
Truthy(cc, key) == key \in DOMAIN cc /\ cc[key] # <<>>

\* `is_default_font = font_path is None`: no font configured, or the load failed
IsDefaultFont(d) == font_paths = <<>> \/ ~d.loaded

\* Lines 444-468: the angle drawn, in tenths of a degree
RotationWidenedForEveryFont(cc, d) ==
    LET key == IF Get(cc, "mode", "") \in {"part3", "part4"}
               THEN "large_rotation_range" ELSE "rotation_range"
    IN  IF Truthy(cc, key)
        THEN IntTrunc(cc[key][IF d.low THEN 1 ELSE 2] * 12, 10)
        ELSE 0
Rotation(cc, d) ==
    LET key == IF Get(cc, "mode", "") \in {"part3", "part4"}
               THEN "large_rotation_range" ELSE "rotation_range"
        wide == IF key = "large_rotation_range" THEN 300 ELSE 200
        min_rot == IF IsDefaultFont(d) THEN IntTrunc(cc[key][1] * 12, 10)
                   ELSE cc[key][1]
        max_rot == IF IsDefaultFont(d) THEN IntTrunc(cc[key][2] * 12, 10)
                   ELSE cc[key][2]
    IN  IF Truthy(cc, key)
        THEN (IF d.low THEN min_rot ELSE max_rot)
        ELSE IF ~IsDefaultFont(d) THEN 0
        ELSE (IF d.low THEN -wide ELSE wide)

\* Lines 520-525: the left shift of an overlapping character
OverlapShift(cc, char_index, char_width) ==
    IF /\ Get(cc, "character_overlap", FALSE)
       /\ char_index > 0
       /\ Get(cc, "overlap_amount", 0) # 0
    THEN IntTrunc(char_width * cc.overlap_amount, 4)
    ELSE 0

\* Lines 426-434 and 528: the recorded centre, in pixels
OriginalXWideSpacing(char_index, total_chars, cc, d) ==
    (width \div total_chars) * (char_index + 1) + d.x_offset
        - OverlapShift(cc, char_index, d.char_width)
OriginalXDoubleJitter(char_index, total_chars, cc, d) ==
    (width \div (total_chars + 1)) * (char_index + 1) + 2 * d.x_offset
        - OverlapShift(cc, char_index, d.char_width)
OriginalX(char_index, total_chars, cc, d) ==
    (width \div (total_chars + 1)) * (char_index + 1) + d.x_offset
        - OverlapShift(cc, char_index, d.char_width)

OriginalY(d) == (height \div 2) + d.y_offset

\* Lines 581-589: a normalised field is <<numerator, denominator>>
BboxDictFirstChar(txt, char_index, cc, d) ==
    [character |-> txt[1],
     x_center |-> <<OriginalX(char_index, Len(txt), cc, d), width>>,
     y_center |-> <<OriginalY(d), height>>,
     width |-> <<d.char_width, width>>,
     height |-> <<d.char_height, height>>,
     rotation |-> Rotation(cc, d)]
BboxDict(txt, char_index, cc, d) ==
    [character |-> txt[char_index + 1],
     x_center |-> <<OriginalX(char_index, Len(txt), cc, d), width>>,
     y_center |-> <<OriginalY(d), height>>,
     width |-> <<d.char_width, width>>,
     height |-> <<d.char_height, height>>,
     rotation |-> Rotation(cc, d)]

\* Line 532: the side of the square tile the glyph is drawn on
TempSize(d) == Max(d.char_width, d.char_height) + 60

\* The cosine and the absolute sine Image.rotate works with, to eight decimals:
\* <<high, low>> stands for (high * FineBase + low) / FineBase^2
FineBase == 10000

TrigFine(angle) ==
    CASE Abs(angle) = 5 -> [cos |-> <<9999, 6192>>, sin |-> <<87, 2654>>]
      [] Abs(angle) = 6 -> [cos |-> <<9999, 4517>>, sin |-> <<104, 7178>>]
      [] Abs(angle) = 150 -> [cos |-> <<9659, 2583>>, sin |-> <<2588, 1905>>]
      [] Abs(angle) = 180 -> [cos |-> <<9510, 5652>>, sin |-> <<3090, 1699>>]
      [] Abs(angle) = 200 -> [cos |-> <<9396, 9262>>, sin |-> <<3420, 2014>>]
      [] Abs(angle) = 300 -> [cos |-> <<8660, 2540>>, sin |-> <<5000, 0>>]
      [] Abs(angle) = 360 -> [cos |-> <<8090, 1699>>, sin |-> <<5877, 8525>>]

\* Image.rotate(rotation, expand=True) of a square tile of the given side: the
\* corners are turned about the centre side / 2 and the new side is
\* ceil(max) - floor(min) of their coordinates
RotatedSize(side, rotation) ==
    LET fine == TrigFine(rotation)
        low == fine.cos[2] + fine.sin[2]
        high == fine.cos[1] + fine.sin[1] + low \div FineBase
        rest == side * (low % FineBase)
        \* side * (cos + sin) in 1/FineBase, rounded down, and whether that is exact
        extent == side * high + rest \div FineBase
        exact == rest % FineBase = 0
    IN  (IF exact THEN Ceil(side * FineBase + extent, 2 * FineBase)
         ELSE Floor(side * FineBase + extent, 2 * FineBase) + 1)
        - (IF exact THEN Floor(side * FineBase - extent, 2 * FineBase)
           ELSE Floor(side * FineBase - extent - 1, 2 * FineBase))

\* Lines 544-569: the size of char_img after the transform stages; shear,
\* perspective and outline keep the size
TileSize(cc, d) ==
    LET rotation == Rotation(cc, d)
        side == IF Abs(rotation) > 5 THEN RotatedSize(TempSize(d), rotation)
                ELSE TempSize(d)
    IN  IF Get(cc, "scale_distortion", FALSE)
        THEN <<IntTrunc(side * d.scale_x, 10), IntTrunc(side * d.scale_y, 10)>>
        ELSE <<side, side>>

\* Line 544: the angle char_img is rotated by; the rotation is skipped for an
\* angle of at most half a degree
AppliedAngle(cc, d) ==
    IF Abs(Rotation(cc, d)) > 5 THEN Rotation(cc, d) ELSE 0

\* Lines 544-579: the transforms applied to char_img, in the order of the
\* statements that apply them, and the paste that ends them
TileStagesShearFirst(cc, d) ==
    <<"shear">>
    \o (IF Abs(Rotation(cc, d)) > 5 THEN <<"rotate">> ELSE <<>>)
    \o (IF Get(cc, "scale_distortion", FALSE) THEN <<"scale">> ELSE <<>>)
    \o (IF cc.mode \in {"part3", "part4"} /\ Get(cc, "perspective_distortion", FALSE)
        THEN <<"perspective">> ELSE <<>>)
    \o (IF Get(cc, "character_outline", FALSE) THEN <<"outline">> ELSE <<>>)
    \o <<"paste">>
TileStages(cc, d) ==
    (IF Abs(Rotation(cc, d)) > 5 THEN <<"rotate">> ELSE <<>>)
    \o <<"shear">>
    \o (IF Get(cc, "scale_distortion", FALSE) THEN <<"scale">> ELSE <<>>)
    \o (IF cc.mode \in {"part3", "part4"} /\ Get(cc, "perspective_distortion", FALSE)
        THEN <<"perspective">> ELSE <<>>)
    \o (IF Get(cc, "character_outline", FALSE) THEN <<"outline">> ELSE <<>>)
    \o <<"paste">>

\* Lines 572-573: where the tile is pasted, with its size; with it, what was done
\* to the tile: the font that rendered it (line 437), the angle it was rotated
\* by and its transform stages
PasteBox(char_index, total_chars, cc, d) ==
    LET tile == TileSize(cc, d)
    IN  [x |-> Max(0, Min(width - tile[1],
                          OriginalX(char_index, total_chars, cc, d) - tile[1] \div 2)),
         y |-> Max(0, Min(height - tile[2], OriginalY(d) - tile[2] \div 2)),
         width |-> tile[1], height |-> tile[2],
         is_default_font |-> IsDefaultFont(d),
         angle |-> AppliedAngle(cc, d),
         stages |-> TileStages(cc, d)]

\* Lines 386-387: the exception of reading or drawing the font size, "" if none
FontSizeError(cc) ==
    IF "font_size_range" \notin DOMAIN cc THEN "KeyError"
    ELSE IF cc.font_size_range[1] > cc.font_size_range[2] THEN "ValueError"
    ELSE ""

\* Lines 553 and 564: the first exception of the transform stages, "" if none
RenderError(cc) ==
    IF ~Truthy(cc, "shear_range") THEN "UnboundLocalError"
    ELSE IF "mode" \notin DOMAIN cc THEN "KeyError"
    ELSE ""

\* The first statement of _draw_character that raises, "" if none does
DrawCharacterError(cc) ==
    IF FontSizeError(cc) # "" THEN FontSizeError(cc) ELSE RenderError(cc)

\* Line 404: `self._last_used_fonts[-5:]`
HistoryLength == 5

\* Line 420: the length above which the oldest variation is dropped
VariationLimit == 15

\* Lines 380-383
FontType(cc) ==
    IF Get(cc, "challenging_fonts", FALSE) /\ Get(cc, "mode", "") = "part4"
    THEN "decorative" ELSE "standard"

\* Line 395: random.choice(self.font_paths), for a non-empty list
FontPath(d) == font_paths[(d.font_choice % Len(font_paths)) + 1]

\* Lines 414-416: the key f"{font_type}_{font_size}_{variation_type}_{variation_id}",
\* as the tuple of its four parts
VariationKey(font_type, d) ==
    <<font_type, d.font_size, d.variation_type, d.variation_id>>

\* Lines 393-401: a font was loaded and more than one is configured
TracksFont(d) == font_paths # <<>> /\ d.loaded /\ Len(font_paths) > 1

\* Lines 402-404: the trailing list after font_path was loaded
LastUsedFontsUntrimmed(fonts, font_path) == Append(fonts, font_path)
LastUsedFonts(fonts, font_path) ==
    LET appended == Append(fonts, font_path)
    IN  SubSeq(appended, Max(1, Len(appended) - HistoryLength + 1), Len(appended))

\* Lines 418-421: the variations after the key of the default-font glyph
SyntheticVariations(variations, variation_key) ==
    IF \E k \in DOMAIN variations : variations[k] = variation_key
    THEN variations
    ELSE LET appended == Append(variations, variation_key)
         IN  IF Len(appended) > VariationLimit THEN Tail(appended) ELSE appended

\* Lines 374-421: the history after a call with the draws d. An exception of
\* line 386 or 387 leaves the call right after lines 375-377.
FontHistoryAfter(history, cc, d) ==
    LET created == CreateHistory(history) IN
    IF FontSizeError(cc) # "" THEN created
    ELSE [created EXCEPT
            !.last_used_fonts =
                IF TracksFont(d) THEN LastUsedFonts(@, FontPath(d)) ELSE @,
            !.synthetic_variations =
                IF IsDefaultFont(d)
                THEN SyntheticVariations(@, VariationKey(FontType(cc), d))
                ELSE @]

\* The call for the draws d
DrawCharacterCall(d) ==
    /\ pc = "chars"
    /\ Len(bboxes) < Len(text)
    /\ font_history' = FontHistoryAfter(font_history, captcha_config, d)
    /\ IF DrawCharacterError(captcha_config) # ""
       THEN /\ Raise(DrawCharacterError(captcha_config))
            /\ UNCHANGED <<attr_vars, cli, config, config_arg, captcha_config,
                           text, ds, labels>>
       ELSE /\ bboxes' = Append(bboxes,
                                BboxDict(text, Len(bboxes), captcha_config, d))
            /\ img' = [img EXCEPT
                         !.ops = Append(@, "paste"),
                         !.pastes = Append(@, PasteBox(Len(bboxes), Len(text),
                                                       captcha_config, d))]
            /\ UNCHANGED <<attr_vars, cli, config, config_arg, captcha_config,
                           text, pc, outcome, error, ds, labels>>

DrawCharacter == \E d \in GlyphDraws : DrawCharacterCall(d)

-----------------------------------------------------------------------------
(* The degradations of lines 197-201: _apply_part3_degradations (678-695) and
   _apply_part4_degradations (697-740) *)

\* `line_count = config.get('line_distractors', 0)`, the bound of the loop
LineCountPlusOne(cc) == Get(cc, "line_distractors", 0) + 1
LineCount(cc) == Get(cc, "line_distractors", 0)

\* The first statement of _apply_part4_degradations that raises, "" if none
Part4Error(cc) ==
    IF Get(cc, "circular_distractors", 0) > 0 /\ (width < 100 \/ height < 100)
    THEN "ValueError"                  \* random.randint(50, width - 50)
    ELSE IF Get(cc, "non_ascii_distractors", 0) > 0 /\ non_ascii_distractors = <<>>
    THEN "IndexError"                  \* random.choice of an empty pool
    ELSE IF Get(cc, "non_ascii_distractors", 0) > 0 /\ (width < 50 \/ height < 50)
    THEN "ValueError"                  \* random.randint(0, width - 50)
    ELSE ""

ApplyDegradations ==
    /\ pc = "chars"
    /\ Len(bboxes) = Len(text)
    /\ UNCHANGED <<self_vars, config, config_arg, captcha_config, text, ds, labels>>
    /\ LET cc == captcha_config IN
       IF "mode" \notin DOMAIN cc THEN Raise("KeyError")
       ELSE IF cc.mode = "part3"
       THEN /\ img' = [img EXCEPT !.ops = @ \o Repeat("line", LineCount(cc))]
            /\ pc' = "post"
            /\ UNCHANGED <<bboxes, outcome, error>>
       ELSE IF cc.mode = "part4"
       THEN IF Part4Error(cc) # "" THEN Raise(Part4Error(cc))
            ELSE \E drawn \in 0..Get(cc, "non_ascii_distractors", 0) :
                 /\ img' = [img EXCEPT !.ops =
                               @ \o Repeat("circle", Get(cc, "circular_distractors", 0))
                                 \o Repeat("symbol", drawn)]
                 /\ pc' = "post"
                 /\ UNCHANGED <<bboxes, outcome, error>>
       ELSE /\ pc' = "post"
            /\ UNCHANGED <<img, bboxes, outcome, error>>

-----------------------------------------------------------------------------
(* Noise and blur (lines 203-214), _add_noise (742-749) *)

\* int(255 * noise_level), noise_level in 1/1024
NoiseBound(noise_level) == IntTrunc(255 * noise_level, 1024)

\* np.array(img).shape, rows first
ArrayShape(image) == <<image.size[2], image.size[1], 3>>

\* Image.fromarray(a).size, width first
FromArraySizeTransposed(shape) == <<shape[1], shape[2]>>
FromArraySize(shape) == <<shape[2], shape[1]>>

AddNoise(image) ==
    [image EXCEPT !.size = FromArraySize(ArrayShape(image)),
                  !.ops = Append(image.ops, "noise")]

\* `captcha_config['noise_level'] > 0`
NoiseApplies(cc) == cc.noise_level > 0

\* `captcha_config['blur_level'] > 0`
BlurAppliesAlways(cc) == cc.blur_level >= 0
BlurApplies(cc) == cc.blur_level > 0

GaussianBlur(image) == [image EXCEPT !.ops = Append(@, "blur")]

\* The first statement of lines 203-209 that raises, "" if none
PostProcessError(cc) ==
    IF "noise_level" \notin DOMAIN cc THEN "KeyError"
    ELSE IF NoiseApplies(cc) /\ NoiseBound(cc.noise_level) <= 0
    THEN "ValueError"                  \* np.random.randint(0, 0): low >= high
    ELSE IF "blur_level" \notin DOMAIN cc THEN "KeyError"
    ELSE ""

PostProcess ==
    /\ pc = "post"
    /\ UNCHANGED <<self_vars, config, config_arg, captcha_config, text, ds, labels>>
    /\ LET cc == captcha_config
           noisy == IF NoiseApplies(cc) THEN AddNoise(img) ELSE img
       IN  IF PostProcessError(cc) # "" THEN Raise(PostProcessError(cc))
           ELSE /\ img' = IF BlurApplies(cc) THEN GaussianBlur(noisy) ELSE noisy
                /\ pc' = "idle"
                /\ outcome' = "returned"
                /\ UNCHANGED <<bboxes, error>>

-----------------------------------------------------------------------------
(* generate_dataset (lines 751-869) *)

\* The `mode` arguments: the CLI passes its part names, 'part2' among them
DatasetModes == {"part2", "part3", "part4"}

\* The `custom_config` arguments (<<>>: None)
CustomConfigs == { <<>>, [blur_level |-> 1] }

\* Lines 782-791: the local `config` of generate_dataset
DatasetConfig(cfg, mode, custom) ==
    LET base == Get(Get(cfg, "mode_configs", <<>>), mode, <<>>)
    IN  IF custom # <<>> THEN DictUpdate(base, custom) ELSE base

\* self.config after line 791: mode_configs.get(mode, {}) IS the mapping held by
\* self.config when the mode has one, and update() writes through to it
ConfigAfterDataset(cfg, mode, custom) ==
    IF /\ custom # <<>>
       /\ mode \in DOMAIN Get(cfg, "mode_configs", <<>>)
    THEN [cfg EXCEPT !.mode_configs[mode] = DictUpdate(@, custom)]
    ELSE cfg

\* Lines 770-793: the call up to the loop, for given arguments
EnterDataset(n, mode, custom, save) ==
    /\ ds' = [active |-> TRUE, result |-> "none", mode |-> mode,
              config |-> DatasetConfig(config, mode, custom),
              num_samples |-> n, save_annotations |-> save,
              metadata |-> <<>>]
    /\ config' = ConfigAfterDataset(config, mode, custom)
    /\ labels' = NoLabels
    /\ config_arg' = <<>>
    /\ captcha_config' = <<>>
    /\ text' = <<>>
    /\ bboxes' = <<>>
    /\ img' = NoImage
    /\ outcome' = "none"
    /\ error' = "none"

\* A caller other than the __main__ block calls generate_dataset
GenerateDataset ==
    /\ constructed
    /\ pc = "idle"
    /\ ~ds.active
    /\ \E n \in 0..MaxSamples, mode \in DatasetModes, custom \in CustomConfigs,
          save \in BOOLEAN :
          EnterDataset(n, mode, custom, save)
    /\ UNCHANGED <<self_vars, pc>>

\* Lines 795-807: the next iteration calls generate_captcha with a copy of config
DatasetSample ==
    /\ ds.active
    /\ pc = "idle"
    /\ outcome = "none"
    /\ Len(ds.metadata) < ds.num_samples
    /\ LET length_range == Get(config, "captcha_length_range", <<3, 7>>) IN
       IF length_range[1] > length_range[2]
       THEN /\ ds' = [ds EXCEPT !.active = FALSE, !.result = "raised"]
            /\ error' = "ValueError"
            /\ UNCHANGED <<config, pc, config_arg, captcha_config, text, bboxes,
                           img, outcome>>
       ELSE /\ \E k \in length_range[1]..length_range[2] :
                 /\ k <= MaxLen
                 /\ EnterCaptcha(FALSE, <<>>, TRUE, k, ds.config)
            /\ UNCHANGED ds
    /\ UNCHANGED <<self_vars, labels>>

\* Lines 824-836: the bounding boxes as written to the metadata
FormatBboxes(bbs) ==
    [j \in DOMAIN bbs |->
        [character |-> bbs[j].character,
         x_center |-> bbs[j].x_center, y_center |-> bbs[j].y_center,
         width |-> bbs[j].width, height |-> bbs[j].height]]

\* Lines 814-836
Metadata(index, mode, save) ==
    LET item == [filename |-> <<mode, index>>, text |-> text,
                 length |-> Len(text), resolution |-> <<width, height>>,
                 mode |-> mode]
    IN  IF save
        THEN DictUpdate(item, [bboxes |-> FormatBboxes(bboxes)])
        ELSE item

\* Lines 809-838: generate_captcha returned to the loop
DatasetCollect ==
    /\ ds.active
    /\ pc = "idle"
    /\ outcome = "returned"
    /\ ds' = [ds EXCEPT !.metadata =
                 Append(@, Metadata(Len(ds.metadata), ds.mode, ds.save_annotations))]
    /\ outcome' = "none"
    /\ bboxes' = <<>>
    /\ img' = NoImage
    /\ UNCHANGED <<self_vars, config, pc, config_arg, captcha_config, text, error,
                   labels>>

\* Lines 843-869, or the exception of generate_captcha leaving generate_dataset
DatasetReturn ==
    /\ ds.active
    /\ pc = "idle"
    /\ \/ /\ outcome = "raised"
          /\ ds' = [ds EXCEPT !.active = FALSE, !.result = "raised"]
          /\ error' = error
       \/ /\ outcome = "none"
          /\ Len(ds.metadata) = ds.num_samples
          /\ IF ds.num_samples = 0          \* avg_length divides by num_samples
             THEN /\ ds' = [ds EXCEPT !.active = FALSE, !.result = "raised"]
                  /\ error' = "ZeroDivisionError"
             ELSE /\ ds' = [ds EXCEPT !.active = FALSE, !.result = "returned"]
                  /\ error' = error
    /\ UNCHANGED <<self_vars, config, pc, config_arg, captcha_config, text, bboxes,
                   img, outcome, labels>>

-----------------------------------------------------------------------------
(* export_to_original_format (lines 871-1004) *)

\* str.isdigit, str.isalpha, str.upper and int on one character of Latin-1
IsDigit(c) == c \in 48..57 \/ c \in {178, 179, 185}
IsAlpha(c) ==
    \/ c \in 65..90 \/ c \in 97..122
    \/ c \in {170, 181, 186}
    \/ c \in 192..214 \/ c \in 216..246 \/ c \in 248..255

\* char.upper() as a string
Upper(c) ==
    IF c \in 97..122 \/ c \in 224..246 \/ c \in 248..254 THEN <<c - 32>>
    ELSE IF c = 181 THEN <<924>>
    ELSE IF c = 223 THEN <<83, 83>>
    ELSE IF c = 255 THEN <<376>>
    ELSE <<c>>

\* Lines 948-953: the exception int(char) or ord(char.upper()) raises, "" if none
CategoryError(c) ==
    IF IsDigit(c) THEN (IF c \in 48..57 THEN "" ELSE "ValueError")
    ELSE IF IsAlpha(c) THEN (IF Len(Upper(c)) = 1 THEN "" ELSE "TypeError")
    ELSE ""

\* `category_id is not None` at line 955
HasCategory(c) == IsDigit(c) \/ IsAlpha(c)

\* Lines 950-953: category_id where a branch assigns it
CategoryId(c) ==
    IF IsDigit(c) THEN c - 48 ELSE Upper(c)[1] - 65 + 10

\* Lines 959-989: the corners (-half_w, -half_h), (half_w, -half_h),
\* (half_w, half_h), (-half_w, half_h) rotated and moved to the centre; cx, cy
\* and the result in half pixels, the result scaled by TrigUnit
OrientedBboxFullExtent(cx, cy, w, h, rotation) ==
    LET points == << <<-2 * w, -2 * h>>, <<2 * w, -2 * h>>,
                     <<2 * w, 2 * h>>, <<-2 * w, 2 * h>> >>
        rx(pt) == pt[1] * Cos(rotation) - pt[2] * Sin(rotation) + cx * TrigUnit
        ry(pt) == pt[1] * Sin(rotation) + pt[2] * Cos(rotation) + cy * TrigUnit
    IN  << rx(points[1]), ry(points[1]), rx(points[2]), ry(points[2]),
           rx(points[3]), ry(points[3]), rx(points[4]), ry(points[4]) >>
OrientedBbox(cx, cy, w, h, rotation) ==
    LET points == << <<-w, -h>>, <<w, -h>>, <<w, h>>, <<-w, h>> >>
        rx(pt) == pt[1] * Cos(rotation) - pt[2] * Sin(rotation) + cx * TrigUnit
        ry(pt) == pt[1] * Sin(rotation) + pt[2] * Cos(rotation) + cy * TrigUnit
    IN  << rx(points[1]), ry(points[1]), rx(points[2]), ry(points[2]),
           rx(points[3]), ry(points[3]), rx(points[4]), ry(points[4]) >>

\* Lines 936-946 and 956-997: one annotation; lengths in half pixels, so that
\* half_w is w and the centre is 2 * x_center
Annotation(bbox) ==
    LET x_center == (bbox.x_center[1] * width) \div bbox.x_center[2]
        y_center == (bbox.y_center[1] * height) \div bbox.y_center[2]
        w == (bbox.width[1] * width) \div bbox.width[2]
        h == (bbox.height[1] * height) \div bbox.height[2]
        rotation == Get(bbox, "rotation", 0)
    IN  [bbox |-> <<2 * x_center - w, 2 * y_center - h,
                    2 * x_center + w, 2 * y_center + h>>,
         oriented_bbox |-> OrientedBbox(2 * x_center, 2 * y_center, w, h, rotation),
         category_id |-> CategoryId(bbox.character)]

\* Lines 932-997: the annotations of one item, characters without a category left out
RECURSIVE Annotations(_)
Annotations(bbs) ==
    IF bbs = <<>> THEN <<>>
    ELSE IF ~HasCategory(Head(bbs).character) THEN Annotations(Tail(bbs))
    ELSE <<Annotation(Head(bbs))>> \o Annotations(Tail(bbs))

\* Lines 922-999
Entry(item, index, split) ==
    [height |-> height, width |-> width, image_id |-> index,
     captcha_string |-> item.text,
     annotations |-> IF "bboxes" \in DOMAIN item /\ split \in {"train", "val"}
                     THEN Annotations(item.bboxes) ELSE <<>>]

\* Some character reached by the loop of line 933 makes lines 950-953 raise
ExportRaises(metadata, split) ==
    /\ split \in {"train", "val"}
    /\ \E j \in DOMAIN metadata :
          /\ "bboxes" \in DOMAIN metadata[j]
          /\ \E m \in DOMAIN metadata[j].bboxes :
                CategoryError(metadata[j].bboxes[m].character) # ""

Splits == {"train", "val", "test"}

\* Lines 890-1003: labels_data as written to labels.json, or the exception
LabelsData(metadata, split) ==
    IF ExportRaises(metadata, split)
    THEN [result |-> "raised", split |-> split, data |-> <<>>]
    ELSE [result |-> "written", split |-> split,
          data |-> [j \in DOMAIN metadata |-> Entry(metadata[j], j, split)]]

ExportToOriginalFormat ==
    /\ constructed
    /\ pc = "idle"
    /\ ~ds.active
    /\ ds.result = "returned"
    /\ labels.result = "none"
    /\ \E split \in Splits : labels' = LabelsData(ds.metadata, split)
    /\ UNCHANGED <<self_vars, config, pc, config_arg, captcha_config, text, bboxes,
                   img, outcome, error, ds>>

-----------------------------------------------------------------------------

Next ==
    \/ GenerateCaptcha
    \/ DrawCharacter
    \/ ApplyDegradations
    \/ PostProcess
    \/ GenerateDataset
    \/ DatasetSample
    \/ DatasetCollect
    \/ DatasetReturn
    \/ ExportToOriginalFormat

Spec == Init /\ [][Next]_vars

-----------------------------------------------------------------------------
(* generate_captcha called without text and without captcha_length on a generator
   whose config has no captcha_length_range *)

InitText ==
    /\ \E default_fonts \in DefaultFontSets :
          ConstructFrom(YamlNoRange, default_fonts)
    /\ IdleCall
    /\ ds = NoFrame
    /\ labels = NoLabels
    /\ calls = NoCalls
    /\ cli = NoCli

NextText ==
    \/ GenerateCaptchaNoArguments
    \/ DrawCharacter
    \/ ApplyDegradations
    \/ PostProcess

SpecText == InitText /\ [][NextText]_vars

-----------------------------------------------------------------------------
(* Two threads, each calling generate_captcha once on the same generator. A
   step is one statement group of the call, and every read or write of the
   font history (self._last_used_fonts, self._synthetic_variations) is a step
   of its own; the frame of a
   call holds its arguments and locals (the canvas is left out), and the local
   name captcha_config refers either to the call's own copy or to the mapping
   self.config['captcha_config'] itself. Within _draw_character the draws of
   the call in progress are the last entry of `draws`.                       *)

Threads == {1, 2}

\* The `config` and `text` arguments the threads pass
ThreadArgs == { <<>>, [mode |-> "part4"], [blur_level |-> 1] }
ThreadTexts == { <<65>> }

\* The frame of a call that has not executed a statement yet
NewFrame(arg, text_arg) ==
    [pc |-> "start", config_arg |-> arg, text |-> text_arg, aliased |-> FALSE,
     captcha_config |-> <<>>, bboxes |-> <<>>, draws |-> <<>>, error |-> "none",
     font_type |-> "", kept |-> <<>>]

\* The mapping the local name captcha_config of a frame refers to
View(frame) ==
    IF frame.aliased THEN config.captcha_config ELSE frame.captcha_config

InitThreads ==
    /\ \E yaml \in {YamlFull, YamlSmall, YamlTwoFonts}, default_fonts \in DefaultFontSets :
          ConstructFrom(yaml, default_fonts)
    /\ IdleCall
    /\ ds = NoFrame
    /\ labels = NoLabels
    /\ cli = NoCli
    /\ \E a1 \in ThreadArgs, a2 \in ThreadArgs, t1 \in ThreadTexts, t2 \in ThreadTexts :
          calls = <<NewFrame(a1, t1), NewFrame(a2, t2)>>

\* What a thread step leaves alone: everything but self.config and the frames
thread_frame_unchanged ==
    <<constructed, config0, width, height, charset, non_ascii_distractors,
      font_paths, background_colors, background_colors_arg, pc, config_arg,
      captcha_config, text, bboxes, img, outcome, error, ds, labels, cli>>

\* What the other thread steps leave alone: the font history as well
thread_unchanged == <<thread_frame_unchanged, font_history>>

\* How many one-character calls are made before the two threads start
MaxEarlierCalls == 14

\* Lines 138-214 and 374-421: before either thread has started, one call of
\* generate_captcha with no config and one character runs from start to end and
\* its glyph falls back to the default font with a variation id not drawn before;
\* of the state the threads share it changes the font history only
ThreadEarlierCall ==
    /\ \A t \in Threads : calls[t].pc = "start"
    /\ Len(font_history.synthetic_variations) < MaxEarlierCalls
    /\ \E d \in GlyphDraws :
          LET drawn == Len(font_history.synthetic_variations)
              earlier == [d EXCEPT !.variation_id = d.variation_id + 1 + drawn]
          IN  /\ IsDefaultFont(d)
              /\ FontSizeError(MergeConfig(config, <<>>)) = ""
              /\ font_history' =
                     FontHistoryAfter(font_history, MergeConfig(config, <<>>), earlier)
    /\ UNCHANGED <<config, calls, thread_frame_unchanged>>

\* Lines 154-163: captcha_config is self.config['captcha_config'], or a copy of
\* it updated with the mapping of the requested mode
ThreadGetConfig ==
    \E t \in Threads :
        LET frame == calls[t] IN
        /\ frame.pc = "start"
        /\ calls' = [calls EXCEPT ![t] =
              IF HasModeConfig(config, frame.config_arg)
              THEN [frame EXCEPT
                      !.pc = "update",
                      !.captcha_config =
                          DictUpdate(Get(config, "captcha_config", <<>>),
                                     config.mode_configs[RequestedMode(frame.config_arg)])]
              ELSE [frame EXCEPT
                      !.pc = "update",
                      !.aliased = "captcha_config" \in DOMAIN config]]
        /\ UNCHANGED <<config, thread_unchanged>>

\* Lines 166-167: captcha_config.update(config), through the alias if it is one
ThreadUpdateConfig ==
    \E t \in Threads :
        LET frame == calls[t] IN
        /\ frame.pc = "update"
        /\ IF frame.config_arg = <<>>
           THEN /\ calls' = [calls EXCEPT ![t].pc = "chars"]
                /\ UNCHANGED config
           ELSE IF frame.aliased
           THEN /\ config' = [config EXCEPT
                                 !.captcha_config = DictUpdate(@, frame.config_arg)]
                /\ calls' = [calls EXCEPT ![t].pc = "chars"]
           ELSE /\ calls' = [calls EXCEPT
                                ![t].pc = "chars",
                                ![t].captcha_config = DictUpdate(@, frame.config_arg)]
                /\ UNCHANGED config
        /\ UNCHANGED thread_unchanged

\* Lines 191-195 and 375: _draw_character is called and tests hasattr
ThreadCheckHistory ==
    \E t \in Threads :
        LET frame == calls[t] IN
        /\ frame.pc = "chars"
        /\ Len(frame.bboxes) < Len(frame.text)
        /\ calls' = [calls EXCEPT ![t].pc = IF font_history.initialized
                                              THEN "font_type" ELSE "create_fonts"]
        /\ UNCHANGED <<config, thread_unchanged>>

\* Line 376: `self._last_used_fonts = []`, whatever the list holds by now
ThreadCreateFonts ==
    \E t \in Threads :
        /\ calls[t].pc = "create_fonts"
        /\ font_history' = [font_history EXCEPT !.initialized = TRUE,
                                                !.last_used_fonts = <<>>]
        /\ calls' = [calls EXCEPT ![t].pc = "create_variations"]
        /\ UNCHANGED <<config, thread_frame_unchanged>>

\* Line 377: `self._synthetic_variations = []`, whatever the list holds by now
ThreadCreateVariations ==
    \E t \in Threads :
        /\ calls[t].pc = "create_variations"
        /\ font_history' = [font_history EXCEPT !.has_variations = TRUE,
                                                !.synthetic_variations = <<>>]
        /\ calls' = [calls EXCEPT ![t].pc = "font_type"]
        /\ UNCHANGED <<config, thread_frame_unchanged>>

\* Lines 380-383: the font type, by captcha_config as it is now
ThreadFontType ==
    \E t \in Threads :
        /\ calls[t].pc = "font_type"
        /\ calls' = [calls EXCEPT ![t].pc = "font_size",
                                  ![t].font_type = FontType(View(calls[t]))]
        /\ UNCHANGED <<config, thread_unchanged>>

\* Lines 386-387: the font size, by captcha_config as it is now
ThreadFontSize ==
    \E t \in Threads :
        LET frame == calls[t]
            cc == View(frame)
        IN  /\ frame.pc = "font_size"
            /\ calls' = IF FontSizeError(cc) # ""
                         THEN [calls EXCEPT ![t].pc = "raised",
                                            ![t].error = FontSizeError(cc)]
                         ELSE [calls EXCEPT ![t].pc = "load_font"]
            /\ UNCHANGED <<config, thread_unchanged>>

\* Lines 390-406: the font is chosen and loaded, and a loaded one of several is
\* appended to the history (line 402)
ThreadLoadFont ==
    \E t \in Threads, d \in GlyphDraws :
        /\ calls[t].pc = "load_font"
        /\ calls' = [calls EXCEPT
              ![t].draws = Append(@, d),
              ![t].pc = IF TracksFont(d) THEN "read_fonts"
                        ELSE IF IsDefaultFont(d) THEN "check_variation"
                        ELSE "render"]
        /\ font_history' =
              IF TracksFont(d)
              THEN [font_history EXCEPT !.last_used_fonts = Append(@, FontPath(d))]
              ELSE font_history
        /\ UNCHANGED <<config, thread_frame_unchanged>>

\* Line 404, right-hand side: `self._last_used_fonts[-5:]` is evaluated
ThreadReadFonts ==
    \E t \in Threads :
        LET fonts == font_history.last_used_fonts IN
        /\ calls[t].pc = "read_fonts"
        /\ calls' = [calls EXCEPT
              ![t].pc = "write_fonts",
              ![t].kept = SubSeq(fonts, Max(1, Len(fonts) - HistoryLength + 1),
                                 Len(fonts))]
        /\ UNCHANGED <<config, thread_unchanged>>

\* Line 404, assignment: the slice replaces the list, whatever it holds by now
ThreadWriteFonts ==
    \E t \in Threads :
        /\ calls[t].pc = "write_fonts"
        /\ font_history' = [font_history EXCEPT !.last_used_fonts = calls[t].kept]
        /\ calls' = [calls EXCEPT ![t].pc = "render", ![t].kept = <<>>]
        /\ UNCHANGED <<config, thread_frame_unchanged>>

\* Lines 409-418: the variation key of the default font is built and looked up in
\* self._synthetic_variations; the attribute is missing while another call is
\* between lines 376 and 377
ThreadCheckVariation ==
    \E t \in Threads :
        LET frame == calls[t]
            variation_key == VariationKey(frame.font_type, frame.draws[Len(frame.draws)])
            held == \E k \in DOMAIN font_history.synthetic_variations :
                       font_history.synthetic_variations[k] = variation_key
        IN  /\ frame.pc = "check_variation"
            /\ calls' = IF ~font_history.has_variations
                         THEN [calls EXCEPT ![t].pc = "raised",
                                            ![t].error = "AttributeError"]
                         ELSE [calls EXCEPT ![t].pc = IF held THEN "render"
                                                      ELSE "append_variation"]
            /\ UNCHANGED <<config, thread_unchanged>>

\* Line 419: the key is appended, whatever the list holds by now
ThreadAppendVariation ==
    \E t \in Threads :
        LET frame == calls[t]
            variation_key == VariationKey(frame.font_type, frame.draws[Len(frame.draws)])
        IN  /\ frame.pc = "append_variation"
            /\ font_history' = [font_history EXCEPT
                                   !.synthetic_variations = Append(@, variation_key)]
            /\ calls' = [calls EXCEPT ![t].pc = "test_variations"]
            /\ UNCHANGED <<config, thread_frame_unchanged>>

\* Line 420: the length of the list as it is now is compared with 15
ThreadTestVariations ==
    \E t \in Threads :
        /\ calls[t].pc = "test_variations"
        /\ calls' = [calls EXCEPT
              ![t].pc = IF Len(font_history.synthetic_variations) > VariationLimit
                        THEN "pop_variations" ELSE "render"]
        /\ UNCHANGED <<config, thread_unchanged>>

\* Line 421: `pop(0)` drops the oldest key of the list as it is now, and raises
\* IndexError on an empty one
ThreadPopVariations ==
    \E t \in Threads :
        /\ calls[t].pc = "pop_variations"
        /\ IF font_history.synthetic_variations = <<>>
           THEN /\ calls' = [calls EXCEPT ![t].pc = "raised", ![t].error = "IndexError"]
                /\ UNCHANGED font_history
           ELSE /\ font_history' = [font_history EXCEPT !.synthetic_variations = Tail(@)]
                /\ calls' = [calls EXCEPT ![t].pc = "render"]
        /\ UNCHANGED <<config, thread_frame_unchanged>>

\* Lines 424-591: the glyph is placed, transformed and pasted, and the bounding
\* box returned, by captcha_config as it is now
ThreadDrawCharacter ==
    \E t \in Threads :
        LET frame == calls[t]
            cc == View(frame)
            d == frame.draws[Len(frame.draws)]
        IN  /\ frame.pc = "render"
            /\ calls' = IF RenderError(cc) # ""
                         THEN [calls EXCEPT ![t].pc = "raised",
                                            ![t].error = RenderError(cc)]
                         ELSE [calls EXCEPT
                                 ![t].pc = "chars",
                                 ![t].bboxes = Append(@, BboxDict(frame.text,
                                                         Len(frame.bboxes), cc, d))]
            /\ UNCHANGED <<config, thread_unchanged>>

\* Lines 197-201: the degradations, selected by captcha_config['mode'] as it is now
ThreadApplyDegradations ==
    \E t \in Threads :
        LET frame == calls[t]
            cc == View(frame)
            raised == IF "mode" \notin DOMAIN cc THEN "KeyError"
                      ELSE IF cc.mode = "part4" THEN Part4Error(cc)
                      ELSE ""
        IN  /\ frame.pc = "chars"
            /\ Len(frame.bboxes) = Len(frame.text)
            /\ calls' = IF raised # ""
                         THEN [calls EXCEPT ![t].pc = "raised", ![t].error = raised]
                         ELSE [calls EXCEPT ![t].pc = "post"]
            /\ UNCHANGED <<config, thread_unchanged>>

\* Lines 203-214: noise and blur by captcha_config as it is now, and the return
ThreadPostProcess ==
    \E t \in Threads :
        LET frame == calls[t]
            cc == View(frame)
        IN  /\ frame.pc = "post"
            /\ calls' = IF PostProcessError(cc) # ""
                         THEN [calls EXCEPT ![t].pc = "raised",
                                            ![t].error = PostProcessError(cc)]
                         ELSE [calls EXCEPT ![t].pc = "returned",
                                            ![t].aliased = FALSE,
                                            ![t].captcha_config = cc]
            /\ UNCHANGED <<config, thread_unchanged>>

NextThreads ==
    \/ ThreadEarlierCall
    \/ ThreadGetConfig
    \/ ThreadUpdateConfig
    \/ ThreadCheckHistory
    \/ ThreadCreateFonts
    \/ ThreadCreateVariations
    \/ ThreadFontType
    \/ ThreadFontSize
    \/ ThreadLoadFont
    \/ ThreadReadFonts
    \/ ThreadWriteFonts
    \/ ThreadCheckVariation
    \/ ThreadAppendVariation
    \/ ThreadTestVariations
    \/ ThreadPopVariations
    \/ ThreadDrawCharacter
    \/ ThreadApplyDegradations
    \/ ThreadPostProcess

SpecThreads == InitThreads /\ [][NextThreads]_vars

-----------------------------------------------------------------------------
(* The __main__ block (lines 1013-1116): for every valid part, each split with a
   positive sample count is generated into its staging directory and exported,
   then the staging directories of the part are removed. The file system is
   the set of staging directories and the set of exported splits, each named
   by <<part, split>>; an exception that leaves the block ends the process.   *)

\* --part, and the train, val and test sample counts
PartArgs == { <<"part3">>, <<"part9", "part4">>, <<"part4", "part3">>, <<"part9">> }
SampleArgs == { <<1, 1, 1>>, <<1, 0, 1>>, <<0, 1, 0>>, <<0, 0, 0>> }

\* Lines 1039-1040
IsValidPart(part) == part \in {"part2", "part3", "part4"}

SplitNames == <<"train", "val", "test">>

\* temp_<part>_train, temp_<part>_val, temp_<part>_test
TempDirs(part) == { <<part, SplitNames[k]>> : k \in DOMAIN SplitNames }

InitCli ==
    /\ \E yaml \in {YamlFull, YamlSmallModes}, default_fonts \in DefaultFontSets :
          ConstructFrom(yaml, default_fonts)
    /\ IdleCall
    /\ ds = NoFrame
    /\ labels = NoLabels
    /\ calls = NoCalls
    /\ \E part_arg \in PartArgs, samples \in SampleArgs :
          LET parts_to_generate == SelectSeq(part_arg, IsValidPart) IN
          cli = [pc |-> IF parts_to_generate = <<>> THEN "exit" ELSE "split",
                 parts |-> parts_to_generate, part |-> 1, split |-> 1,
                 samples |-> samples, dirs |-> {}, exports |-> {}, ended |-> {}]

\* Lines 1056-1062, 1071-1077, 1086-1092: generate_dataset is called for the
\* split and creates its staging directory (line 779)
CliGenerateSplit ==
    /\ cli.pc = "split"
    /\ cli.split <= 3
    /\ cli.samples[cli.split] > 0
    /\ pc = "idle"
    /\ ~ds.active
    /\ EnterDataset(cli.samples[cli.split], cli.parts[cli.part], <<>>, TRUE)
    /\ cli' = [cli EXCEPT
                  !.pc = "generating",
                  !.dirs = @ \cup {<<cli.parts[cli.part], SplitNames[cli.split]>>}]
    /\ UNCHANGED <<init_vars, pc>>

\* Lines 1056, 1071, 1086: a split with no samples is passed over
CliSkipSplit ==
    /\ cli.pc = "split"
    /\ cli.split <= 3
    /\ cli.samples[cli.split] <= 0
    /\ cli' = [cli EXCEPT !.split = @ + 1]
    /\ UNCHANGED <<init_vars, config, pc, config_arg, captcha_config, text, bboxes,
                   img, outcome, error, ds, labels>>

\* Lines 1063-1068, 1078-1083, 1093-1098: the split is exported; an exception of
\* export_to_original_format leaves the block
CliExport ==
    /\ cli.pc = "generating"
    /\ ~ds.active
    /\ ds.result = "returned"
    /\ labels' = LabelsData(ds.metadata, SplitNames[cli.split])
    /\ cli' = IF labels'.result = "raised"
               THEN [cli EXCEPT !.pc = "crashed", !.ended = @ \cup {cli.parts[cli.part]}]
               ELSE [cli EXCEPT
                       !.pc = "split",
                       !.split = @ + 1,
                       !.exports = @ \cup {<<cli.parts[cli.part], SplitNames[cli.split]>>}]
    /\ UNCHANGED <<init_vars, config, pc, config_arg, captcha_config, text, bboxes,
                   img, outcome, error, ds>>

\* An exception of generate_dataset leaves the block: nothing catches it
CliCrash ==
    /\ cli.pc = "generating"
    /\ ~ds.active
    /\ ds.result = "raised"
    /\ cli' = [cli EXCEPT !.pc = "crashed", !.ended = @ \cup {cli.parts[cli.part]}]
    /\ UNCHANGED <<init_vars, config, pc, config_arg, captcha_config, text, bboxes,
                   img, outcome, error, ds, labels>>

\* Lines 1100-1111: the staging directories of the part are removed, and the
\* loop goes on to the next part
CliCleanup ==
    /\ cli.pc = "split"
    /\ cli.split > 3
    /\ cli' = [cli EXCEPT
                  !.dirs = @ \ TempDirs(cli.parts[cli.part]),
                  !.ended = @ \cup {cli.parts[cli.part]},
                  !.pc = IF cli.part < Len(cli.parts) THEN "split" ELSE "done",
                  !.part = IF cli.part < Len(cli.parts) THEN @ + 1 ELSE @,
                  !.split = IF cli.part < Len(cli.parts) THEN 1 ELSE @]
    /\ UNCHANGED <<init_vars, config, pc, config_arg, captcha_config, text, bboxes,
                   img, outcome, error, ds, labels>>

NextCli ==
    \/ CliGenerateSplit
    \/ CliSkipSplit
    \/ DatasetSample
    \/ DrawCharacter
    \/ ApplyDegradations
    \/ PostProcess
    \/ DatasetCollect
    \/ DatasetReturn
    \/ CliExport
    \/ CliCrash
    \/ CliCleanup

SpecCli == InitCli /\ [][NextCli]_vars

-----------------------------------------------------------------------------
(* The font history over a sequence of generate_captcha calls, each drawing one
   character, on a generator with two fonts, one font or none *)

\* How many values of variation_id (line 414) the draws range over
MaxVariationKeys == 16

VariationKeys == 0..(MaxVariationKeys - 1)

\* The variation ids drawn for a given list: one whose key is in the list, and
\* the least one whose key is not (the list treats all keys it does not hold
\* alike)
IdDraws(variations) ==
    LET held == {variations[k][4] : k \in DOMAIN variations}
        unused == VariationKeys \ held
    IN  (IF variations # <<>> THEN {Head(variations)[4]} ELSE {})
        \cup (IF unused # {} THEN {CHOOSE k \in unused : \A m \in unused : k <= m}
              ELSE {})

\* The draws of GlyphDraws with every font and with the variation ids above
HistoryDraws(variations) ==
    { [d EXCEPT !.font_choice = choice, !.variation_id = id] :
        d \in GlyphDraws, choice \in 0..1, id \in IdDraws(variations) }

InitFonts ==
    /\ \E yaml \in {YamlTwoFonts, YamlFull, YamlSmall}, default_fonts \in DefaultFontSets :
          ConstructFrom(yaml, default_fonts)
    /\ IdleCall
    /\ ds = NoFrame
    /\ labels = NoLabels
    /\ calls = NoCalls
    /\ cli = NoCli

\* generate_captcha(text='A')
GenerateCaptchaOneCharacter ==
    /\ constructed
    /\ pc = "idle"
    /\ ~ds.active
    /\ EnterCaptcha(TRUE, <<65>>, FALSE, 0, <<>>)
    /\ ds' = NoFrame
    /\ labels' = NoLabels
    /\ UNCHANGED self_vars

\* _draw_character over the draws that vary the font and the variation
DrawCharacterTracked ==
    \E d \in HistoryDraws(font_history.synthetic_variations) : DrawCharacterCall(d)

NextFonts ==
    \/ GenerateCaptchaOneCharacter
    \/ DrawCharacterTracked
    \/ ApplyDegradations
    \/ PostProcess

SpecFonts == InitFonts /\ [][NextFonts]_vars

-----------------------------------------------------------------------------
(* Properties *)

\* A normalised field <<numerator, denominator>> lies in [0, 1]
InUnit(r) == 0 <= r[1] /\ r[1] <= r[2]

\* How many times op occurs in ops
Count(ops, op) == Cardinality({j \in DOMAIN ops : ops[j] = op})

\* C1: every call of generate_captcha that returns gives one bounding box per
\* character of the text, and box i carries character i of the text.
C1_BboxPerCharacter ==
    outcome = "returned" =>
        /\ Len(bboxes) = Len(text)
        /\ \A j \in DOMAIN bboxes : bboxes[j].character = text[j]

C1_Witness ==
    /\ outcome = "returned"
    /\ text = <<65, 66>>
    /\ Len(bboxes) = 2
    /\ bboxes[2].character = 66

\* C2 as stated: every field of every bounding box lies in [0, 1], for any canvas
\* size, any text length, any character index and any overlap setting.
C2_AllFieldsInUnit ==
    \A j \in DOMAIN bboxes :
        /\ InUnit(bboxes[j].x_center)
        /\ InUnit(bboxes[j].y_center)
        /\ InUnit(bboxes[j].width)
        /\ InUnit(bboxes[j].height)

\* C2 amended: x_center lies in [0, 1] when the character spacing
\* width // (n + 1) is at least the 10 pixels of jitter plus the overlap shift of
\* the character, y_center lies in [0, 1] when height // 2 is at least 10, and
\* width and height are never negative and are at most 1 when the ink extent is
\* no larger than the canvas.
C2_FieldsInUnitWithRoom ==
    \A j \in DOMAIN bboxes :
        LET b == bboxes[j]
            shift == OverlapShift(captcha_config, j - 1, b.width[1])
        IN  /\ (width \div (Len(text) + 1)) >= 10 + shift => InUnit(b.x_center)
            /\ (height \div 2) >= 10 => InUnit(b.y_center)
            /\ b.width[1] >= 0 /\ b.height[1] >= 0
            /\ b.width[1] <= width => InUnit(b.width)
            /\ b.height[1] <= height => InUnit(b.height)

C2_Witness ==
    /\ outcome = "returned"
    /\ Len(bboxes) = 2
    /\ OverlapShift(captcha_config, 1, bboxes[2].width[1]) > 0
    /\ (width \div (Len(text) + 1)) >= 10 + OverlapShift(captcha_config, 1, bboxes[2].width[1])
    /\ InUnit(bboxes[2].x_center)
    /\ InUnit(bboxes[2].y_center)

\* C3: the image generate_captcha returns has the size (self.width, self.height)
\* in every mode, with a plain or a complex background, with or without
\* distractors, noise and blur.
C3_ImageSize ==
    outcome = "returned" => img.size = <<width, height>>

C3_Witness ==
    /\ outcome = "returned"
    /\ Count(img.ops, "noise") = 1
    /\ Count(img.ops, "blur") = 1
    /\ Count(img.ops, "line") = 2
    /\ Len(text) > 0

\* The effective config holds every required key with a valid value
ValidConfig(cc) ==
    /\ {"mode", "font_size_range", "noise_level", "blur_level"} \subseteq DOMAIN cc
    /\ cc.mode \in Modes
    /\ cc.font_size_range[1] <= cc.font_size_range[2]
    /\ cc.noise_level >= 0
    /\ cc.blur_level >= 0
    /\ Get(cc, "line_distractors", 0) >= 0
    /\ Get(cc, "circular_distractors", 0) >= 0
    /\ Get(cc, "non_ascii_distractors", 0) >= 0

\* C4: with a valid effective config and a positive canvas size, generate_captcha
\* raises nothing, for every noise_level > 0 and every canvas size.
C4_NeverRaises ==
    (ValidConfig(captcha_config) /\ width > 0 /\ height > 0) => outcome # "raised"

\* C5: self.config, with its nested mappings, keeps the value it had when
\* __init__ ended, whatever calls of generate_captcha and generate_dataset follow.
C5_ConfigReadOnly ==
    config = config0

\* eff is the key-wise merge of base, then modecfg, then arg
KeyWiseMerge(base, modecfg, arg, eff) ==
    /\ DOMAIN eff = DOMAIN base \cup DOMAIN modecfg \cup DOMAIN arg
    /\ \A k \in DOMAIN eff :
          eff[k] = IF k \in DOMAIN arg THEN arg[k]
                   ELSE IF k \in DOMAIN modecfg THEN modecfg[k]
                   ELSE base[k]

\* C6: the effective config of a call is, key by key, the explicit config's value
\* if it has the key, else the value of the requested mode's mapping if that has
\* the key, else the value of the base captcha_config.
C6_EffectiveConfig ==
    [][(pc = "idle" /\ pc' = "chars") =>
          KeyWiseMerge(Get(config, "captcha_config", <<>>),
                       Get(Get(config, "mode_configs", <<>>),
                           Get(config_arg', "mode", ""), <<>>),
                       config_arg', captcha_config')]_vars

C6_Witness ==
    /\ pc = "chars"
    /\ config_arg = [mode |-> "part3", noise_level |-> 1, line_distractors |-> 0]
    /\ "mode_configs" \in DOMAIN config
    /\ captcha_config.noise_level = 1
    /\ captcha_config.character_overlap = TRUE
    /\ captcha_config.font_size_range = <<40, 60>>

\* C7: merging is idempotent: once a call has merged its override, applying the
\* same override again, to the effective config or through the merge of a
\* second identical call, yields the same effective config.
C7_MergeIdempotent ==
    (pc # "idle" \/ outcome # "none") =>
        /\ DictUpdate(captcha_config, config_arg) = captcha_config
        /\ MergeConfig(config, config_arg) = captcha_config

C7_Witness ==
    /\ pc = "chars"
    /\ config_arg = [mode |-> "part3", noise_level |-> 1, line_distractors |-> 0]
    /\ captcha_config.noise_level = 1
    /\ "mode_configs" \notin DOMAIN config

\* C8: with noise_level = 0 and blur_level = 0 the stage of lines 203-209 returns
\* the canvas it was given, unchanged.
C8_PostProcessNoOp ==
    [][(/\ pc = "post"
        /\ outcome' = "returned"
        /\ Get(captcha_config, "noise_level", 1) = 0
        /\ Get(captcha_config, "blur_level", 1) = 0) => img' = img]_vars

C8_Witness ==
    /\ outcome = "returned"
    /\ captcha_config.noise_level = 0
    /\ captcha_config.blur_level = 0
    /\ Len(text) = 2
    /\ img.ops = <<"fill", "paste", "paste">>

\* C9: the degradation stage draws line_distractors lines in part3,
\* circular_distractors circles and at most non_ascii_distractors glyphs in
\* part4, and nothing in any other mode; with all three counts 0 it leaves the
\* canvas as it was.
C9_DistractorCounts ==
    [][(pc = "chars" /\ pc' = "post") =>
          LET cc == captcha_config
              added == SubSeq(img'.ops, Len(img.ops) + 1, Len(img'.ops))
              lines == Get(cc, "line_distractors", 0)
              circles == Get(cc, "circular_distractors", 0)
              glyphs == Get(cc, "non_ascii_distractors", 0)
          IN  /\ img'.size = img.size
              /\ SubSeq(img'.ops, 1, Len(img.ops)) = img.ops
              /\ cc.mode = "part3" =>
                    Len(added) = lines /\ Count(added, "line") = lines
              /\ cc.mode = "part4" =>
                    /\ Count(added, "circle") = circles
                    /\ Count(added, "symbol") <= glyphs
                    /\ Len(added) = circles + Count(added, "symbol")
              /\ cc.mode \notin {"part3", "part4"} => added = <<>>
              /\ (lines = 0 /\ circles = 0 /\ glyphs = 0) => img' = img]_vars

C9_Witness ==
    /\ pc = "post"
    /\ captcha_config.mode = "part4"
    /\ captcha_config.circular_distractors = 1
    /\ Count(img.ops, "circle") = 1
    /\ Count(img.ops, "symbol") = 1

\* C10: every category_id written by export_to_original_format is the digit
\* value of a digit and ord(upper(letter)) - ord('A') + 10 of a letter, and lies
\* in 0..35 for every character the charset may contain.
C10_CategoryIds ==
    labels.result = "written" =>
        \A j \in DOMAIN labels.data :
            LET entry == labels.data[j] IN
            \A m \in DOMAIN entry.annotations :
                /\ entry.annotations[m].category_id \in 0..35
                /\ Len(entry.annotations) = Len(entry.captcha_string) =>
                      entry.annotations[m].category_id =
                          IF IsDigit(entry.captcha_string[m])
                          THEN entry.captcha_string[m] - 48
                          ELSE Upper(entry.captcha_string[m])[1] - 65 + 10

-----------------------------------------------------------------------------

\* The category ids the mapping of lines 950-953 gives a text, one per character
MappedIds(txt) ==
    [m \in DOMAIN txt |->
        IF IsDigit(txt[m]) THEN txt[m] - 48 ELSE Upper(txt[m])[1] - 65 + 10]

\* C11: a sample generated by generate_dataset with its annotations and exported
\* with split train or val has captcha_string equal to its text and exactly one
\* annotation per character of the text, in text order, carrying the category id
\* of that character: no character is left without an annotation.
C11_AnnotationPerCharacter ==
    (labels.result = "written" /\ labels.split \in {"train", "val"}
        /\ ds.save_annotations) =>
        \A j \in DOMAIN labels.data :
            LET entry == labels.data[j] IN
            /\ entry.captcha_string = ds.metadata[j].text
            /\ Len(entry.annotations) = Len(entry.captcha_string)
            /\ \A m \in DOMAIN entry.annotations :
                  entry.annotations[m].category_id =
                      MappedIds(entry.captcha_string)[m]

\* C12: the bounding boxes generate_captcha returned are written to the metadata
\* of generate_dataset verbatim, every field with its value, rotation included.
C12_BboxesVerbatim ==
    [][(/\ ds.active /\ ds.save_annotations
        /\ Len(ds'.metadata) = Len(ds.metadata) + 1) =>
          LET item == ds'.metadata[Len(ds'.metadata)] IN
          /\ Len(item.bboxes) = Len(bboxes)
          /\ \A m \in DOMAIN bboxes :
                /\ DOMAIN item.bboxes[m] = DOMAIN bboxes[m]
                /\ \A field \in DOMAIN bboxes[m] :
                      item.bboxes[m][field] = bboxes[m][field]]_vars

\* The bounding boxes of an item that get an annotation (lines 948-955), in order
RECURSIVE AnnotatedBboxes(_)
AnnotatedBboxes(bbs) ==
    IF bbs = <<>> THEN <<>>
    ELSE IF ~HasCategory(Head(bbs).character) THEN AnnotatedBboxes(Tail(bbs))
    ELSE <<Head(bbs)>> \o AnnotatedBboxes(Tail(bbs))

\* The rotation line 959 reads for annotation m of item j of the exported metadata
AnnotationRotation(j, m) ==
    Get(AnnotatedBboxes(ds.metadata[j].bboxes)[m], "rotation", 0)

\* C13: for every annotation whose rotation is 0, oriented_bbox is
\* [x1,y1, x2,y1, x2,y2, x1,y2], the corners of bbox = [x1,y1,x2,y2] in the order
\* top-left, top-right, bottom-right, bottom-left.
C13_OrientedBboxUnrotated ==
    labels.result = "written" =>
        \A j \in DOMAIN labels.data :
            \A m \in DOMAIN labels.data[j].annotations :
                LET a == labels.data[j].annotations[m]
                    x1 == a.bbox[1] * TrigUnit
                    y1 == a.bbox[2] * TrigUnit
                    x2 == a.bbox[3] * TrigUnit
                    y2 == a.bbox[4] * TrigUnit
                IN  AnnotationRotation(j, m) = 0 =>
                        a.oriented_bbox = <<x1, y1, x2, y1, x2, y2, x1, y2>>

C13_Witness ==
    /\ labels.result = "written"
    /\ Len(labels.data) > 0
    /\ Len(labels.data[1].annotations) > 0
    /\ AnnotationRotation(1, 1) = 0
    /\ labels.data[1].annotations[1].bbox[1] < labels.data[1].annotations[1].bbox[3]
    /\ labels.data[1].annotations[1].bbox[2] < labels.data[1].annotations[1].bbox[4]

\* C14: a constructed generator never holds an empty palette: when the palette
\* resolved at construction is empty, __init__ raises instead of substituting
\* one, and the colour choice of a plain background never fails.
C14_PaletteNonEmpty ==
    /\ constructed => background_colors # <<>>
    /\ Get(config0, "background_colors", <<>>) = <<>> => ~constructed
    /\ ~constructed => (pc = "idle" /\ outcome = "none")
    /\ (pc # "idle" /\ ~WantsComplexBackground(captcha_config)) =>
           (background_colors # <<>> /\ Head(img.ops) = "fill")

C14_Witness ==
    /\ ~constructed
    /\ background_colors = <<>>
    /\ background_colors_arg # <<>>

\* C15: when the loaded config supplies no background_colors and a non-empty
\* background_colors argument is passed, the generator is constructed with that
\* argument as its palette.
C15_ArgumentPalette ==
    (Get(config0, "background_colors", <<>>) = <<>> /\ background_colors_arg # <<>>) =>
        (constructed /\ background_colors = background_colors_arg)

\* C19: no glyph transform stage makes generate_captcha raise; when the effective
\* config has no shear_range (absent or empty) the shear stage is skipped, the
\* character is still drawn and its bounding box is returned.
C19_TransformsNeverRaise ==
    [][(/\ pc = "chars"
        /\ Len(bboxes) < Len(text)
        /\ {"font_size_range", "mode"} \subseteq DOMAIN captcha_config
        /\ captcha_config.font_size_range[1] <= captcha_config.font_size_range[2]) =>
          (/\ outcome' # "raised"
           /\ Len(bboxes') = Len(bboxes) + 1
           /\ bboxes'[Len(bboxes')].character = text[Len(bboxes')])]_vars

\* C20: every glyph tile is pasted fully within the canvas: 0 <= paste_x,
\* paste_x + tile width <= canvas width, 0 <= paste_y and paste_y + tile height
\* <= canvas height, for every tile size the transform stages produce.
C20_TileWithinCanvas ==
    \A j \in DOMAIN img.pastes :
        LET p == img.pastes[j] IN
        /\ 0 <= p.x /\ p.x + p.width <= width
        /\ 0 <= p.y /\ p.y + p.height <= height

\* C17: a text generated without text, without captcha_length and without a
\* captcha_length_range in the config has between 3 and 6 characters, each of
\* them from the charset.
C17_DefaultLength ==
    (pc # "idle" \/ outcome = "returned") =>
        /\ Len(text) \in 3..6
        /\ \A j \in DOMAIN text : \E m \in DOMAIN charset : text[j] = charset[m]

\* C16: two concurrent generate_captcha calls share no mutable state: under every
\* interleaving each call works with the effective config it would have when run
\* alone on the generator, ends as it would alone, and returns the bounding boxes
\* it would return alone with the same random draws.
C16_CallsIsolated ==
    \A t \in DOMAIN calls :
        LET frame == calls[t]
            alone == MergeConfig(config0, frame.config_arg)
        IN  /\ frame.pc \in {"chars", "post", "returned"} =>
                  /\ View(frame) = alone
                  /\ \A j \in DOMAIN frame.bboxes :
                        frame.bboxes[j] =
                            BboxDict(frame.text, j - 1, alone, frame.draws[j])
            /\ frame.pc = "raised" =>
                  \/ DrawCharacterError(alone) # ""
                  \/ (alone.mode = "part4" /\ Part4Error(alone) # "")
                  \/ PostProcessError(alone) # ""

\* C18: in the command-line run an exported split was generated into its staging
\* directory first, the staging directories of a part stay until all its exports
\* are done, and when the processing of a part has ended none of its staging
\* directories exists, whatever happened during generation or export.
C18_StagingRemoved ==
    /\ \A e \in cli.exports : e \in cli.dirs \/ e[1] \in cli.ended
    /\ \A d \in cli.dirs : d[1] \in {cli.parts[k] : k \in 1..cli.part}
    /\ \A part \in cli.ended : cli.dirs \cap TempDirs(part) = {}

\* C21 as stated: with character overlap disabled the recorded centre (x, y) of
\* character i of n has x - width / (n + 1) * (i + 1) in [-10, 10] and
\* y - height / 2 in [-10, 10], the quotients being exact; both differences are
\* compared after multiplying by n + 1 and by 2.
C21_ExactBase ==
    \A j \in DOMAIN bboxes :
        ~Get(captcha_config, "character_overlap", FALSE) =>
            LET n == Len(text)
                x == bboxes[j].x_center[1]
                y == bboxes[j].y_center[1]
            IN  /\ (n + 1) * x - width * j \in (-10 * (n + 1))..(10 * (n + 1))
                /\ 2 * y - height \in -20..20

\* C21 amended: with character overlap disabled the recorded centre (x, y) of
\* character i of n has x - (width // (n + 1)) * (i + 1) in [-10, 10] and
\* y - height // 2 in [-10, 10], the quotients rounded down to whole pixels.
C21_FloorBase ==
    \A j \in DOMAIN bboxes :
        ~Get(captcha_config, "character_overlap", FALSE) =>
            LET n == Len(text)
                x == bboxes[j].x_center[1]
                y == bboxes[j].y_center[1]
            IN  /\ x - (width \div (n + 1)) * j \in -10..10
                /\ y - (height \div 2) \in -10..10

C21_Witness ==
    /\ outcome = "returned"
    /\ ~Get(captcha_config, "character_overlap", FALSE)
    /\ width = 640 /\ Len(text) = 2 /\ Len(bboxes) = 2
    /\ bboxes[2].x_center[1] = 416
    /\ bboxes[1].x_center[1] = 223
    /\ bboxes[1].y_center[1] = 90

\* The rotation range the mode of a config selects (lines 445-449, 456-460)
RangeKey(cc) ==
    IF Get(cc, "mode", "") \in {"part3", "part4"}
    THEN "large_rotation_range" ELSE "rotation_range"

\* C22 as stated: the rotation recorded for every glyph lies within the range
\* (min, max) its mode selects, whichever font rendered the glyph.
C22_RotationInRange ==
    \A j \in DOMAIN bboxes :
        Truthy(captcha_config, RangeKey(captcha_config)) =>
            LET range == captcha_config[RangeKey(captcha_config)]
            IN  range[1] <= bboxes[j].rotation /\ bboxes[j].rotation <= range[2]

\* C22 amended: with the range (min, max) of the mode configured, the rotation
\* recorded for a glyph lies within (min, max) when a configured font rendered
\* it and within (1.2 * min, 1.2 * max) when the built-in default font did.
C22_RotationInFontRange ==
    \A j \in DOMAIN bboxes :
        (Truthy(captcha_config, RangeKey(captcha_config)) /\ j \in DOMAIN img.pastes) =>
            LET range == captcha_config[RangeKey(captcha_config)]
                r == bboxes[j].rotation
            IN  IF img.pastes[j].is_default_font
                THEN 12 * range[1] <= 10 * r /\ 10 * r <= 12 * range[2]
                ELSE range[1] <= r /\ r <= range[2]

C22_Witness ==
    /\ outcome = "returned"
    /\ Len(bboxes) = 2 /\ Len(img.pastes) = 2
    /\ captcha_config.rotation_range = <<-150, 150>>
    /\ captcha_config.mode = "normal"
    /\ img.pastes[1].is_default_font /\ bboxes[1].rotation = 180
    /\ ~img.pastes[2].is_default_font /\ bboxes[2].rotation = -150

\* C23: when the noise_pattern style is picked, the returned image is the flat
\* base colour with the width * height // 10 noise points written onto it, and
\* no point is drawn on a canvas that is discarded.
C23_NoisePointsOnReturnedCanvas ==
    (img.ops # <<>> /\ Head(img.ops) = "noise_pattern" /\ (width * height) \div 10 > 0) =>
        /\ Len(img.ops) >= 2
        /\ img.ops[2] = "point"
        /\ Count(BackgroundCanvases("noise_pattern").discarded.ops, "point") = 0

\* The place of a transform among the stages of a glyph tile
StageRank(stage) ==
    CASE stage = "rotate" -> 1
      [] stage = "shear" -> 2
      [] stage = "scale" -> 3
      [] stage = "perspective" -> 4
      [] stage = "outline" -> 5
      [] stage = "paste" -> 6

\* The place of a drawing operation among the stages of a sample
OpRank(op) ==
    CASE op = "paste" -> 1
      [] op \in {"line", "circle", "symbol"} -> 2
      [] op = "noise" -> 3
      [] op = "blur" -> 4
      [] OTHER -> 0

\* C24: every glyph tile goes through rotation, shear, scale (if enabled),
\* perspective (if enabled, in part3 and part4), outline (if enabled) and paste
\* in that order; all glyphs are pasted before any distractor is drawn,
\* distractors are drawn before noise, and noise is applied before blur.
C24_StageOrder ==
    /\ \A j \in DOMAIN img.pastes :
          LET stages == img.pastes[j].stages
              has(stage) == \E k \in DOMAIN stages : stages[k] = stage
          IN  /\ \A k \in 1..(Len(stages) - 1) :
                    StageRank(stages[k]) < StageRank(stages[k + 1])
              /\ stages[Len(stages)] = "paste"
              /\ has("shear")
              /\ has("scale") <=> Get(captcha_config, "scale_distortion", FALSE)
              /\ has("perspective") <=>
                    (/\ captcha_config.mode \in {"part3", "part4"}
                     /\ Get(captcha_config, "perspective_distortion", FALSE))
              /\ has("outline") <=> Get(captcha_config, "character_outline", FALSE)
    /\ \A k \in 1..(Len(img.ops) - 1) : OpRank(img.ops[k]) <= OpRank(img.ops[k + 1])

C24_Witness ==
    /\ outcome = "returned"
    /\ Len(img.pastes) = 2
    /\ img.pastes[1].stages = <<"rotate", "shear", "perspective", "outline", "paste">>
    /\ Count(img.ops, "line") = 2
    /\ Count(img.ops, "noise") = 1
    /\ Count(img.ops, "blur") = 1

\* C25: the rotation stored in a glyph's bounding box is the angle its tile was
\* rotated by: 0 when the drawn angle is within half a degree and the rotation
\* is skipped, the applied angle otherwise.
C25_StoredRotationApplied ==
    \A j \in DOMAIN bboxes :
        j \in DOMAIN img.pastes => bboxes[j].rotation = img.pastes[j].angle

\* C26: every sample of generate_dataset(mode = m) is generated under mode m:
\* the 'mode' of the effective config of generate_captcha is the mode the
\* dataset records, whatever mode_configs holds.
C26_DatasetModeEffective ==
    (ds.active /\ captcha_config # <<>>) =>
        Get(captcha_config, "mode", "") = ds.mode

\* C27: after any sequence of _draw_character calls _last_used_fonts holds at
\* most 5 entries, all of them configured font paths, and none unless more than
\* one font is configured; a call that loads a font puts its path last and
\* keeps the paths before it in order, dropping the oldest of six;
\* _synthetic_variations holds at most 15 entries and no entry twice.
C27_HistoryBounded ==
    /\ [](/\ Len(font_history.last_used_fonts) <= 5
          /\ \A k \in DOMAIN font_history.last_used_fonts :
                \E f \in DOMAIN font_paths :
                    font_paths[f] = font_history.last_used_fonts[k]
          /\ Len(font_paths) <= 1 => font_history.last_used_fonts = <<>>
          /\ Len(font_history.synthetic_variations) <= 15
          /\ \A k, m \in DOMAIN font_history.synthetic_variations :
                font_history.synthetic_variations[k] =
                    font_history.synthetic_variations[m] => k = m)
    /\ [][font_history'.last_used_fonts # font_history.last_used_fonts =>
            LET old == font_history.last_used_fonts
                new == font_history'.last_used_fonts
            IN  /\ new # <<>>
                /\ SubSeq(new, 1, Len(new) - 1) =
                       IF Len(old) = 5 THEN Tail(old) ELSE old]_vars

C27_Witness ==
    /\ Len(font_history.last_used_fonts) = 5
    /\ font_history.last_used_fonts[1] # font_history.last_used_fonts[5]
    /\ Len(font_history.synthetic_variations) = 15
    /\ Head(font_history.synthetic_variations)[4] = 2
    /\ outcome = "returned"

====
